---- MODULE Spec2Model ----
(***************************************************************************)
(* CourseConnect: prerequisite resolution, eligibility and schedule        *)
(* conflicts over the course knowledge graph.                              *)
(*                                                                         *)
(* Modelled code:                                                          *)
(*   utils/sparql/sparql_tool.py          (graph accessor, global handle)  *)
(*   utils/sparql/sparql_query_builder.py (the SPARQL queries)             *)
(*   utils/sparql/sparql_prereq_tool.py   (sparql_prerequisite_tool)       *)
(*   agents/prerequisite_agent.py         (PrerequisiteAgent)              *)
(*   agents/eligibility_agent.py          (EligibilityAgent)               *)
(*   agents/scheduler_agent.py            (SchedulerAgent)                 *)
(*   agent_orchestrator.py                (handle_query, process_query)    *)
(*                                                                         *)
(* A course code is a sequence of tokens, " " being the space character:   *)
(* "I 1" is <<"I", " ", "1">>.  A URI in namespace ex: is identified with  *)
(* its local name, a sequence of tokens without spaces.                    *)
(***************************************************************************)
EXTENDS Integers, Sequences, FiniteSets, TLC

VARIABLES
    ttl,             \* the Turtle file on disk: [edges, defined, offerings]
    hashOrder,       \* iteration order of hashed containers in this process
    kg_instance,     \* sparql_tool._kg_instance: "None" or "loaded"
    sparql_results,  \* PrerequisiteAgent.sparql_results
    queries,         \* queries sent to the graph accessor by the last call
    result,          \* outcome of the last call
    nreq,            \* number of requests the PrerequisiteAgent has served
    run              \* number of the server process that is running

vars == <<ttl, hashOrder, kg_instance, sparql_results, queries, result, nreq, run>>

----------------------------------------------------------------------------
(* Bounds *)

\* largest number of hasPrerequisite triples in the Turtle file
MaxEdges == 2

\* largest number of requests one PrerequisiteAgent serves in one run
MaxRequests == 2

\* largest number of times the server process is started again
MaxRestarts == 1

\* largest number of schedule components in the Turtle file
MaxComponents == 2

----------------------------------------------------------------------------
(* The universe of the knowledge graph *)

I1 == <<"I", "1">>
I2 == <<"I", "2">>
I3 == <<"I", "3">>

\* URIs that may occur in the graph
Course == {I1, I2, I3}

None == <<"None">>

\* schema:name of a course that has a Course record
CourseName(uri) ==
    CASE uri = I1 -> "Intro"
      [] uri = I2 -> "Databases"
      [] uri = I3 -> "Networks"
      [] OTHER    -> "?"

\* schema:courseCode of a course that has a Course record ("I 1" for ex:I1)
CourseCode(uri) == <<uri[1], " ", uri[2]>>

Range(s) == {s[i] : i \in 1..Len(s)}

\* every order in which a hashed container of URIs can be iterated
Permutations3 ==
    {p \in [1..Cardinality(Course) -> Course] : Range(p) = Course}

\* ex:a ex:hasPrerequisite ex:b, between different courses
PossibleEdges == {e \in Course \X Course : e[1] # e[2]}

\* the graphs a Turtle file can hold: edges are the hasPrerequisite triples,
\* defined the URIs that have a Course record (type, name and courseCode)
Graphs ==
    {[edges |-> e, defined |-> d, offerings |-> {}] :
        e \in {x \in SUBSET PossibleEdges : Cardinality(x) <= MaxEdges},
        d \in SUBSET Course}

\* ex:semester of an offering, "<year> <Semester>"
Semesters == {"2025 Fall", "2025 Spring"}

\* ex:dayOfWeek of a time slot
Weekdays == {"Monday", "Tuesday"}

\* the time slots of the timetables: Monday and/or Tuesday, 9-11, 10-12,
\* 9-10 or 10-11, where 9 is ex:startTime or ex:endTime "09:00:00"^^xsd:time
TimeSlots ==
    {[days |-> d, startTime |-> iv[1], endTime |-> iv[2]] :
        d \in (SUBSET Weekdays) \ {{}},
        iv \in {<<9, 11>>, <<10, 12>>, <<9, 10>>, <<10, 11>>}}

\* a schedule component (lecture or lab) with its time slot, in the offering
\* of a course in a semester:
\*   course ex:offeredIn off . off ex:semester s ; ex:hasComponent comp .
\*   comp ex:hasTimeSlot slot . slot ex:dayOfWeek d ; ex:startTime .. ; ex:endTime ..
Components ==
    {[course |-> o[1], semester |-> o[2], kind |-> o[3], slot |-> t] :
        o \in {<<I1, "2025 Fall", "LEC">>, <<I1, "2025 Fall", "LAB">>,
               <<I2, "2025 Fall", "LEC">>, <<I2, "2025 Spring", "LEC">>},
        t \in TimeSlots}

\* a course has one lecture and one lab at most in one semester
OneOfEachKind(S) ==
    \A x, y \in S :
        (x.course = y.course /\ x.semester = y.semester /\ x.kind = y.kind) => x = y

\* the subsets of S with n elements at most
RECURSIVE SubsetsUpTo(_, _)
SubsetsUpTo(S, n) ==
    IF n = 0 THEN {{}}
    ELSE LET P == SubsetsUpTo(S, n - 1)
         IN  P \cup {p \cup {a} : p \in P, a \in S}

\* the Turtle files with schedule data: I1 and I2 have a Course record, I3
\* has none, and there are no prerequisites
TimetableGraphs ==
    {[edges |-> {}, defined |-> {I1, I2}, offerings |-> o] :
        o \in {x \in SubsetsUpTo(Components, MaxComponents) : OneOfEachKind(x)}}

\* the elements of S in this process's iteration order
Ordered(S) == SelectSeq(hashOrder, LAMBDA x : x \in S)

----------------------------------------------------------------------------
(* str.replace(" ", "") and str.strip() *)

\* the code as it is, without the replace
StripSpaces_Keep(code) == code

\* code.replace(" ", "")
StripSpaces(code) == SelectSeq(code, LAMBDA ch : ch # " ")

RECURSIVE Trim(_)
Trim(code) ==
    IF code = <<>> THEN code
    ELSE IF Head(code) = " " THEN Trim(Tail(code))
    ELSE IF code[Len(code)] = " " THEN Trim(SubSeq(code, 1, Len(code) - 1))
    ELSE code

\* rdflib Namespace: EX[name] is the URI with that local name
EX(name) == name

\* uri.split("/")[-1]
LocalName(uri) == uri

----------------------------------------------------------------------------
(* The graph accessor: sparql_tool.py *)

\* the graph held by the installed SPARQLKnowledgeGraph
Graph == ttl

\* query_knowledge_graph before initialize_knowledge_graph:
\* the single row {"error": "Knowledge graph not initialized"}
ErrorRows ==
    [error |-> TRUE, rows |-> <<>>, message |-> "Knowledge graph not initialized"]

\* execute_query when self.graph.query(query) raised e: [{"error": str(e)}]
ExceptionRows == [error |-> TRUE, rows |-> <<>>, message |-> "str(e)"]

Rows(rs) == [error |-> FALSE, rows |-> rs, message |-> ""]

\* Python truth value of a list of rows
Truthy(res) == res.error \/ res.rows # <<>>

\* get_course_details_query: one row for a URI that has schema:name and
\* schema:courseCode, no row otherwise
DetailsRows(uri) ==
    IF uri \in Graph.defined
    THEN <<[courseName |-> CourseName(uri), courseCode |-> CourseCode(uri)]>>
    ELSE <<>>

\* ?target (ex:hasPrerequisite)+ ?prereq
RECURSIVE ReachFrom(_, _)
ReachFrom(frontier, seen) ==
    LET next == {e[2] : e \in {x \in Graph.edges : x[1] \in frontier}} \ seen
    IN  IF next = {} THEN seen ELSE ReachFrom(next, seen \cup next)

Reachable(target) == ReachFrom({target}, {})

\* ?prereq ex:hasPrerequisite ?directParent
DirectParents(prereq) == {e[2] : e \in {x \in Graph.edges : x[1] = prereq}}

\* the rows of one ?prereq: one per directParent, or one with it unbound
RowsOf(prereq) ==
    LET ps == Ordered(DirectParents(prereq))
    IN  IF ps = <<>>
        THEN <<[prereq |-> prereq, directParent |-> None]>>
        ELSE [i \in 1..Len(ps) |-> [prereq |-> prereq, directParent |-> ps[i]]]

RECURSIVE Flatten(_)
Flatten(ss) == IF ss = <<>> THEN <<>> ELSE Head(ss) \o Flatten(Tail(ss))

\* get_prerequisites_query: SELECT DISTINCT ?prereq ?directParent, in the
\* order the store yields them
PrerequisiteRows(course_id) ==
    LET reach == Ordered(Reachable(course_id))
    IN  Flatten([i \in 1..Len(reach) |-> RowsOf(reach[i])])

\* the optional part with FILTER(?prereq IN (completed))
OptionalUnmet_In(course, completed_courses) ==
    LET met == {prereq \in DirectParents(course) : prereq \in completed_courses}
    IN  IF met = {} THEN {None} ELSE met

\* check_eligibility_query, OPTIONAL { ?course ex:hasPrerequisite ?prereq .
\* FILTER(?prereq NOT IN (completed)) }: the bindings of ?prereq that the
\* optional part adds to one ?course; {None} when it matches nothing
OptionalUnmet(course, completed_courses) ==
    LET unmet == {prereq \in DirectParents(course) :
                     prereq \notin completed_courses}
    IN  IF unmet = {} THEN {None} ELSE unmet

\* ... FILTER(!BOUND(?prereq)), SELECT DISTINCT ?course
EligibleCourses(completed_courses) ==
    {course \in Graph.defined :
        \E prereq \in OptionalUnmet(course, completed_courses) : prereq = None}

\* string comparison of course codes, token by token
TokenRank(ch) ==
    CASE ch = " " -> 0
      [] ch = "1" -> 1
      [] ch = "2" -> 2
      [] ch = "3" -> 3
      [] OTHER    -> 4

RECURSIVE CodeLess(_, _)
CodeLess(a, b) ==
    IF b = <<>> THEN FALSE
    ELSE IF a = <<>> THEN TRUE
    ELSE IF Head(a) = Head(b) THEN CodeLess(Tail(a), Tail(b))
    ELSE TokenRank(Head(a)) < TokenRank(Head(b))

\* ... ORDER BY ?courseCode
RECURSIVE SortByCode(_)
SortByCode(S) ==
    IF S = {} THEN <<>>
    ELSE LET least == CHOOSE c \in S :
                        \A d \in S \ {c} : CodeLess(CourseCode(c), CourseCode(d))
         IN  <<least>> \o SortByCode(S \ {least})

\* the rows of check_eligibility_query
EligibilityRows(completed_courses) ==
    LET eligible == SortByCode(EligibleCourses(completed_courses))
    IN  [i \in 1..Len(eligible) |->
            [course     |-> eligible[i],
             courseName |-> CourseName(eligible[i]),
             courseCode |-> CourseCode(eligible[i])]]

\* an RDF term: a URI of namespace ex:, or a literal with its lexical form
IRI(name) == [kind |-> "iri", value |-> name]
Literal(text) == [kind |-> "literal", value |-> text]

\* course_filter = ' '.join([f'ex:{c}' for c in course_ids])
RECURSIVE course_filter(_)
course_filter(course_ids) ==
    IF course_ids = <<>> THEN <<>>
    ELSE <<"ex:">> \o Head(course_ids)
         \o (IF Len(course_ids) > 1 THEN <<" ">> ELSE <<>>)
         \o course_filter(Tail(course_ids))

\* semester_filter = "\"" + semester + "\"^^xsd:string"
semester_filter(semester) == <<"\"", semester, "\"^^xsd:string">>

\* the terms of the list ex:a ex:b ..., as VALUES would bind them if the
\* list itself stood between the braces
ValuesOf_Terms(course_ids) == {IRI(StripSpaces(c)) : c \in Range(course_ids)}

\* f"VALUES ?course1 { {course_filter} }": the replacement field is the Python
\* set {course_filter}, which prints as {'ex:I1 ex:I2'}, so that VALUES binds
\* one term, the string literal 'ex:I1 ex:I2'
ValuesOf(course_ids) == {Literal(course_filter(course_ids))}

\* f"VALUES ?selectedSemester { {semester_filter} }", in the same way: the
\* string literal '"2025 Fall"^^xsd:string', quotes included
SelectedSemester(semester) == {Literal(semester_filter(semester))}

\* STR(?course1) < STR(?course2)
StrLess(t1, t2) == t1.value # t2.value /\ CodeLess(t1.value, t2.value)

\* ?course schema:name ?courseName: the subject is a URI with a Course record
HasName(t) == t.kind = "iri" /\ t.value \in Graph.defined

\* ?start1 < ?end2 && ?start2 < ?end1
Overlap(slot1, slot2) ==
    slot1.startTime < slot2.endTime /\ slot2.startTime < slot1.endTime

\* the solutions of check_time_conflicts_query: one per ?course1, ?course2,
\* ?comp1, ?comp2 and ?day that satisfy every pattern and filter
TimeConflictSolutions(course_ids, semester) ==
    {t \in ValuesOf(course_ids) \X ValuesOf(course_ids)
           \X SelectedSemester(semester)
           \X Graph.offerings \X Graph.offerings \X Weekdays :
        /\ StrLess(t[1], t[2])
        /\ HasName(t[1]) /\ HasName(t[2])
        /\ IRI(t[4].course) = t[1] /\ IRI(t[5].course) = t[2]
        /\ t[4].semester = t[5].semester
        /\ Literal(<<t[4].semester>>) = t[3]
        /\ t[6] \in t[4].slot.days \cap t[5].slot.days
        /\ Overlap(t[4].slot, t[5].slot)}

\* the rows selected by check_time_conflicts_query
TimeConflictRows(course_ids, semester) ==
    {[course1 |-> t[1].value, course1Name |-> CourseName(t[1].value),
      course2 |-> t[2].value, course2Name |-> CourseName(t[2].value),
      semester |-> t[4].semester, comp1 |-> t[4], comp2 |-> t[5],
      day |-> t[6],
      start1 |-> t[4].slot.startTime, end1 |-> t[4].slot.endTime,
      start2 |-> t[5].slot.startTime, end2 |-> t[5].slot.endTime] :
        t \in TimeConflictSolutions(course_ids, semester)}

\* the rows of a result in one order; no caller depends on which
RECURSIVE AnyOrder(_)
AnyOrder(S) ==
    IF S = {} THEN <<>>
    ELSE LET x == CHOOSE y \in S : TRUE IN <<x>> \o AnyOrder(S \ {x})

\* SPARQLKnowledgeGraph.execute_query(query): the rows, or the error row when
\* self.graph.query(query) does not accept the query text and raises
execute_query(accepted, rows) ==
    [raised |-> FALSE, value |-> IF accepted THEN Rows(rows) ELSE ExceptionRows]

\* query_knowledge_graph(query) for any query text
QueryKnowledgeGraph(accepted, rows) ==
    IF kg_instance = "None" THEN [raised |-> FALSE, value |-> ErrorRows]
    ELSE execute_query(accepted, rows)

\* query_knowledge_graph(query) / query_knowledge_graph.run(query) for the
\* queries of CourseQueryBuilder on the codes of the model, which are accepted
query_knowledge_graph(rows) ==
    IF kg_instance = "None" THEN ErrorRows ELSE Rows(rows)

\* an initialize_knowledge_graph that clears the handle before it constructs
\* the new instance
InitializeKnowledgeGraph_Reset(kg, parses) ==
    IF parses THEN [outcome |-> "ok", kg_instance |-> "loaded"]
    ELSE [outcome |-> "RuntimeError", kg_instance |-> "None"]

\* initialize_knowledge_graph(ttl_file_path) when _kg_instance is kg:
\* SPARQLKnowledgeGraph.__init__ parses the file, or raises RuntimeError
\* before _kg_instance is assigned
InitializeKnowledgeGraph(kg, parses) ==
    IF parses THEN [outcome |-> "ok", kg_instance |-> "loaded"]
    ELSE [outcome |-> "RuntimeError", kg_instance |-> kg]

\* the queries as they are logged
QDetails(uri)      == [q |-> "details", arg |-> uri]
QPrerequisites(id) == [q |-> "prerequisites", arg |-> id]
QEligibility(done) == [q |-> "eligibility", arg |-> SortByCode(done)]
QTimeConflicts(course_ids, semester) ==
    [q |-> "time_conflicts", arg |-> <<course_ids, semester>>]

\* a query text that is not SPARQL
QMalformed == [q |-> "malformed", arg |-> <<>>]

\* the query texts handed to the accessor directly
DirectQueries ==
    {QDetails(I1), QDetails(I3), QPrerequisites(I1), QEligibility({}), QMalformed}

\* the rows the graph has for a query of DirectQueries
QueryRows(q) ==
    CASE q.q = "details"       -> DetailsRows(q.arg)
      [] q.q = "prerequisites" -> PrerequisiteRows(q.arg)
      [] q.q = "eligibility"   -> EligibilityRows({})
      [] OTHER                 -> <<>>

\* a graph on which a query added Course records
GraphAfterQuery_Update(graph, q) == [graph EXCEPT !.defined = Course]

\* self.graph after self.graph.query(query) in execute_query: every query of
\* CourseQueryBuilder is a SELECT, which reads the graph
GraphAfterQuery(graph, q) == graph

\* the graph after the queries qs of one call; query_knowledge_graph runs
\* none of them while no knowledge graph is installed
RECURSIVE GraphAfter(_, _)
GraphAfter(graph, qs) ==
    IF qs = <<>> \/ kg_instance = "None" THEN graph
    ELSE GraphAfter(GraphAfterQuery(graph, Head(qs)), Tail(qs))

----------------------------------------------------------------------------
(* networkx.DiGraph and networkx.topological_sort *)

EmptyDiGraph == [nodes |-> <<>>, edges |-> <<>>]

add_node(G, n) ==
    IF n \in Range(G.nodes) THEN G ELSE [G EXCEPT !.nodes = Append(@, n)]

add_edge(G, e) ==
    LET G1 == add_node(add_node(G, e[1]), e[2])
    IN  IF e \in Range(G1.edges) THEN G1 ELSE [G1 EXCEPT !.edges = Append(@, e)]

RECURSIVE add_edges_from(_, _)
add_edges_from(G, es) ==
    IF es = <<>> THEN G ELSE add_edges_from(add_edge(G, Head(es)), Tail(es))

RECURSIVE add_nodes_from(_, _)
add_nodes_from(G, ns) ==
    IF ns = <<>> THEN G ELSE add_nodes_from(add_node(G, Head(ns)), Tail(ns))

\* G.neighbors(node), in adjacency order
neighbors(G, node) ==
    LET out == SelectSeq(G.edges, LAMBDA e : e[1] = node)
    IN  [i \in 1..Len(out) |-> out[i][2]]

in_degree(G, v) == Cardinality({e \in Range(G.edges) : e[2] = v})

\* one generation: every child of the generation's nodes loses one from its
\* in-degree and joins the next generation when it reaches zero
RECURSIVE Relax(_, _, _)
Relax(children, indegree_map, zero_indegree) ==
    IF children = <<>>
    THEN [indegree_map |-> indegree_map, zero_indegree |-> zero_indegree]
    ELSE LET child == Head(children)
             d     == indegree_map[child] - 1
         IN  Relax(Tail(children),
                   [indegree_map EXCEPT ![child] = d],
                   IF d = 0 THEN Append(zero_indegree, child) ELSE zero_indegree)

RECURSIVE topological_generations(_, _, _, _)
topological_generations(G, indegree_map, zero_indegree, done) ==
    IF zero_indegree = <<>>
    THEN [unfeasible |-> \E v \in DOMAIN indegree_map : indegree_map[v] > 0,
          order      |-> done]
    ELSE LET children ==
                 Flatten([i \in 1..Len(zero_indegree) |->
                              neighbors(G, zero_indegree[i])])
             r == Relax(children, indegree_map, <<>>)
         IN  topological_generations(G, r.indegree_map, r.zero_indegree,
                                     done \o zero_indegree)

\* list(nx.topological_sort(G)): the order, or NetworkXUnfeasible on a cycle
topological_sort(G) ==
    topological_generations(
        G,
        [v \in Range(G.nodes) |-> in_degree(G, v)],
        SelectSeq(G.nodes, LAMBDA v : in_degree(G, v) = 0),
        <<>>)

----------------------------------------------------------------------------
(* Values shared by the resolvers *)

UnknownCourse      == "Unknown Course: No data available"
UnknownCourseSpace == "Unknown Course: No data available "
UnknownCourseDash  == "Unknown Course - No data available"

\* a prerequisite_list that is a Python list
ListValue(l) == [type |-> "list", list |-> l, of |-> <<>>]

\* a prerequisite_list that is the string "No prerequisites found for <code>."
StrValue(code) == [type |-> "str", list |-> <<>>, of |-> code]

PrereqEntry(idx, code, name) ==
    [prerequisite_order       |-> idx,
     prerequisite_course_code |-> code,
     prerequisite_course_name |-> name]

CourseEntry(code, name, plist) ==
    [course_code |-> code, course_name |-> name, prerequisite_list |-> plist]

\* one piece of explanation text
Line(t, order, code, name, suffix) ==
    [t |-> t, order |-> order, code |-> code, name |-> name, suffix |-> suffix]

LToTake(code, name) == Line("To take the course:", 0, code, name, FALSE)
LInOrder == Line("You must complete the following courses in order:", 0, <<>>, "", FALSE)
LNumbered(p, suffix) ==
    Line("numbered", p.prerequisite_order, p.prerequisite_course_code,
         p.prerequisite_course_name, suffix)
LNoPrereq == Line("There is no prerequisite for this course.", 0, <<>>, "", FALSE)
LNotAvailable(code) ==
    Line("is not available in our database", 0, code, "", FALSE)

\* the edges appended the other way round: (prereq, str(parent))
EdgesOf_Reversed(rows) ==
    LET bound == SelectSeq(rows, LAMBDA r : r.directParent # None)
    IN  [i \in 1..Len(bound) |-> <<bound[i].prereq, bound[i].directParent>>]

\* edges.append((str(parent), prereq)) for the rows with a directParent
EdgesOf(rows) ==
    LET bound == SelectSeq(rows, LAMBDA r : r.directParent # None)
    IN  [i \in 1..Len(bound) |-> <<bound[i].directParent, bound[i].prereq>>]

\* isolated_nodes.add(prereq) for the rows without one, as the set iterates
IsolatedOf(rows) ==
    Ordered({r.prereq : r \in {x \in Range(rows) : x.directParent = None}})

\* the graph without G.add_nodes_from(isolated_nodes)
PrereqDiGraph_EdgesOnly(rows) == add_edges_from(EmptyDiGraph, EdgesOf(rows))

\* G = nx.DiGraph(); G.add_edges_from(edges); G.add_nodes_from(isolated_nodes)
PrereqDiGraph(rows) ==
    add_nodes_from(add_edges_from(EmptyDiGraph, EdgesOf(rows)), IsolatedOf(rows))

----------------------------------------------------------------------------
(* sparql_prerequisite_tool *)

\* the loop with enumerate(ordered), which counts from 0
ToolPrereqList_FromZero(ordered) ==
    [idx \in 1..Len(ordered) |->
        LET details == query_knowledge_graph(DetailsRows(ordered[idx]))
        IN  PrereqEntry(idx - 1, LocalName(ordered[idx]),
                        IF Truthy(details) THEN details.rows[1].courseName
                        ELSE UnknownCourse)]

\* the loop over the topological order in the tool's get_course_prerequisites:
\* for idx, uri in enumerate(ordered, start=1)
ToolPrereqList(ordered) ==
    [idx \in 1..Len(ordered) |->
        LET details == query_knowledge_graph(DetailsRows(ordered[idx]))
        IN  PrereqEntry(idx, LocalName(ordered[idx]),
                        IF Truthy(details) THEN details.rows[1].courseName
                        ELSE UnknownCourse)]

\* the tool's local get_course_prerequisites(course_code)
ToolGetCoursePrerequisites(course_code) ==
    LET strip_code == StripSpaces(course_code)
        query_res  == query_knowledge_graph(PrerequisiteRows(strip_code))
        sorted     == topological_sort(PrereqDiGraph(query_res.rows))
        q1         == <<QPrerequisites(strip_code)>>
    IN  IF query_res.error
        THEN [outcome |-> "KeyError", queries |-> q1, list |-> <<>>]
        ELSE IF sorted.unfeasible
        THEN [outcome |-> "NetworkXUnfeasible", queries |-> q1, list |-> <<>>]
        ELSE [outcome |-> "ok",
              queries |-> q1 \o [i \in 1..Len(sorted.order) |->
                                     QDetails(sorted.order[i])],
              list    |-> ToolPrereqList(sorted.order)]

\* the explanation the tool builds for one course entry
ToolExplanation(course) ==
    <<LToTake(course.course_code, course.course_name)>> \o
    (IF course.prerequisite_list.list # <<>>
     THEN <<LInOrder>> \o
          [i \in 1..Len(course.prerequisite_list.list) |->
              LNumbered(course.prerequisite_list.list[i], FALSE)]
     ELSE <<LNoPrereq>>)

\* sparql_prerequisite_tool(task_output): the whole call
ToolRun(task_output) ==
    LET course_code == task_output
        course_uri  == EX(StripSpaces(course_code))
        details     == query_knowledge_graph(DetailsRows(course_uri))
        q0          == <<QDetails(course_uri)>>
        prereqs     == ToolGetCoursePrerequisites(course_code)
        name        == IF Truthy(details) THEN details.rows[1].courseName
                       ELSE UnknownCourse
        entry       == CourseEntry(course_code, name,
                           ListValue(IF Truthy(details) THEN prereqs.list ELSE <<>>))
    IN  IF details.error
        THEN [outcome |-> "KeyError", queries |-> q0, entries |-> <<>>, text |-> <<>>]
        ELSE IF Truthy(details) /\ prereqs.outcome # "ok"
        THEN [outcome |-> prereqs.outcome, queries |-> q0 \o prereqs.queries,
              entries |-> <<>>, text |-> <<>>]
        ELSE [outcome |-> "ok",
              queries |-> IF Truthy(details) THEN q0 \o prereqs.queries ELSE q0,
              entries |-> <<entry>>,
              text    |-> ToolExplanation(entry)]

----------------------------------------------------------------------------
(* PrerequisiteAgent *)

\* the loop over the topological order in PrerequisiteAgent.get_course_prerequisites
AgentPrereqList(ordered_list) ==
    [idx \in 1..Len(ordered_list) |->
        LET prereq_course_detail ==
                query_knowledge_graph(DetailsRows(ordered_list[idx]))
        IN  IF ~Truthy(prereq_course_detail)
            THEN PrereqEntry(idx, LocalName(ordered_list[idx]), UnknownCourseDash)
            ELSE PrereqEntry(idx, prereq_course_detail.rows[1].courseCode,
                             prereq_course_detail.rows[1].courseName)]

\* the entries of course_list whose course_code is the requested one
Matching(course_list, course_code) ==
    {i \in 1..Len(course_list) : course_list[i].course_code = course_code}

Max(S) == CHOOSE x \in S : \A y \in S : y <= x

\* PrerequisiteAgent.get_course_prerequisites(course_code) on course_list
AgentGetCoursePrerequisites(course_list, course_code) ==
    LET strip_course_code == StripSpaces(course_code)
        query_res  == query_knowledge_graph(PrerequisiteRows(strip_course_code))
        q1         == <<QPrerequisites(strip_course_code)>>
        sorted     == topological_sort(PrereqDiGraph(query_res.rows))
        match      == Matching(course_list, course_code)
        obj        == Max(match)
        q2         == [i \in 1..Len(sorted.order) |-> QDetails(sorted.order[i])]
    IN  IF ~Truthy(query_res)
        THEN [outcome |-> "ok", queries |-> q1,
              course_list |->
                  [i \in 1..Len(course_list) |->
                      IF i \in match
                      THEN [course_list[i] EXCEPT
                               !.prerequisite_list = StrValue(course_code)]
                      ELSE course_list[i]]]
        ELSE IF query_res.error
        THEN [outcome |-> "KeyError", queries |-> q1, course_list |-> course_list]
        ELSE IF sorted.unfeasible
        THEN [outcome |-> "NetworkXUnfeasible", queries |-> q1,
              course_list |-> course_list]
        ELSE IF match = {}
        THEN [outcome |-> "UnboundLocalError", queries |-> <<q1[1], q2[1]>>,
              course_list |-> course_list]
        ELSE IF course_list[obj].prerequisite_list.type # "list"
        THEN [outcome |-> "AttributeError", queries |-> <<q1[1], q2[1]>>,
              course_list |-> course_list]
        ELSE [outcome |-> "ok", queries |-> q1 \o q2,
              course_list |->
                  [course_list EXCEPT ![obj].prerequisite_list =
                      ListValue(@.list \o AgentPrereqList(sorted.order))]]

\* one pass of the body shared by both branches of sparql_query_callback:
\* details lookup, append the course entry, get_course_prerequisites
AgentResolveOne(sr, course_code, unknown_name) ==
    LET strip_course_code == StripSpaces(course_code)
        course_details == query_knowledge_graph(DetailsRows(EX(strip_course_code)))
        q0       == <<QDetails(EX(strip_course_code))>>
        created  == [sr EXCEPT !.has_course_list = TRUE]
        name     == IF ~Truthy(course_details) THEN unknown_name
                    ELSE course_details.rows[1].courseName
        appended == Append(created.course_list,
                           CourseEntry(course_code, name, ListValue(<<>>)))
        prereqs  == AgentGetCoursePrerequisites(appended, course_code)
    IN  IF course_details.error
        THEN [outcome |-> "KeyError", queries |-> q0, sr |-> created]
        ELSE [outcome |-> prereqs.outcome, queries |-> q0 \o prereqs.queries,
              sr |-> [created EXCEPT !.course_list = prereqs.course_list]]

\* the else branch: for course_code in course_codes: course_code = course_codes[0]
RECURSIVE AgentResolveEach(_, _, _, _)
AgentResolveEach(sr, course_codes, n, qs) ==
    IF n = 0 THEN [outcome |-> "ok", queries |-> qs, sr |-> sr]
    ELSE LET one == AgentResolveOne(sr, course_codes[1], UnknownCourse)
         IN  IF one.outcome # "ok"
             THEN [one EXCEPT !.queries = qs \o @]
             ELSE AgentResolveEach(one.sr, course_codes, n - 1, qs \o one.queries)

\* the codes on the COURSE_CODES: line, split at "," and stripped
ParseCourseCodes(task_output) ==
    IF task_output.has_line
    THEN [i \in 1..Len(task_output.codes) |-> Trim(task_output.codes[i])]
    ELSE <<>>

\* PrerequisiteAgent.sparql_query_callback(task_output)
AgentQueryCallback(sr, task_output) ==
    LET course_codes == ParseCourseCodes(task_output)
    IN  IF Len(course_codes) = 1
        THEN AgentResolveOne(sr, course_codes[1], UnknownCourseSpace)
        ELSE AgentResolveEach(sr, course_codes, Len(course_codes), <<>>)

\* the explanation of one entry of course_list in sparql_callback;
\* iterating a prerequisite_list that is a string raises TypeError
AgentExplainCourse(course) ==
    IF course.course_name # UnknownCourse
    THEN LET prereqs == course.prerequisite_list
         IN  IF prereqs.type = "str"
             THEN [outcome |-> "TypeError", text |-> <<>>]
             ELSE [outcome |-> "ok",
                   text |->
                     <<LToTake(course.course_code, course.course_name), LInOrder>> \o
                     (IF prereqs.list # <<>>
                      THEN [i \in 1..Len(prereqs.list) |->
                              LNumbered(prereqs.list[i],
                                  prereqs.list[i].prerequisite_course_name
                                      = UnknownCourse)]
                      ELSE <<LNoPrereq>>)]
    ELSE [outcome |-> "ok", text |-> <<LNotAvailable(course.course_code)>>]

RECURSIVE AgentExplain(_, _)
AgentExplain(course_list, explanation) ==
    IF course_list = <<>> THEN [outcome |-> "ok", text |-> explanation]
    ELSE LET one == AgentExplainCourse(Head(course_list))
         IN  IF one.outcome # "ok" THEN one
             ELSE AgentExplain(Tail(course_list), explanation \o one.text)

\* sparql_callback after self.sparql_query_callback(task_output) returned or
\* raised q: course_list = self.sparql_results["course_list"], then the
\* explanation loop, whose outcome and text are e
AgentExplainAll(sr, q, e) ==
    LET added == SubSeq(q.sr.course_list, Len(sr.course_list) + 1,
                        Len(q.sr.course_list))
        base  == [outcome |-> q.outcome, stage |-> "sparql_query_callback",
                  queries |-> q.queries, sr |-> q.sr, entries |-> added,
                  text |-> <<>>]
    IN  IF base.outcome # "ok"
        THEN base
        ELSE IF ~base.sr.has_course_list
        THEN [base EXCEPT !.outcome = "KeyError", !.stage = "sparql_callback"]
        ELSE [base EXCEPT !.outcome = e.outcome,
                          !.stage = IF e.outcome = "ok" THEN "" ELSE "sparql_callback",
                          !.text = e.text]

\* the state and outcome q of sparql_query_callback, handed to the rest of
\* sparql_callback
AgentAfterQuery(sr, q) ==
    AgentExplainAll(sr, q, AgentExplain(q.sr.course_list, <<>>))

\* PrerequisiteAgent.sparql_callback(task_output): the whole call
AgentRun(sr, task_output) ==
    AgentAfterQuery(sr, AgentQueryCallback(sr, task_output))

----------------------------------------------------------------------------
(* SchedulerAgent *)

LIntro(semester) ==
    Line("You asked to check schedule conflicts for the following courses in semester",
         0, <<>>, semester, FALSE)
LCourse(course_id, course_name) == Line("- id : name", 0, course_id, course_name, FALSE)
LNoScheduleInformation ==
    Line("We don't have schedule information for one or more of these courses.",
         0, <<>>, "", FALSE)
LNoConflicts ==
    Line("Good news! There are **no schedule conflicts** among these courses.",
         0, <<>>, "", FALSE)
LNoConflictsDetected ==
    Line("No schedule conflicts detected for the selected semester.",
         0, <<>>, "", FALSE)
LFoundConflicts == Line("I found the following schedule conflicts:", 0, <<>>, "", FALSE)
LConflict(c) == [t |-> "conflict", conflict |-> c]

\* r.course1Name, r.day, ... on a row r of execute_query, which is a dict:
\* a dict has no such attribute
HasAttribute(r, name) == FALSE

\* the entry detect_conflicts appends for the row r
ConflictEntry(r) ==
    [course1 |-> r.course1Name, course2 |-> r.course2Name,
     semester |-> r.semester, day |-> r.day,
     course1_start |-> r.start1, course1_end |-> r.end1,
     course2_start |-> r.start2, course2_end |-> r.end2]

\* a detector that reports the given <<component, component, day>> triples
DetectorReporting(course_ids, semester, triples) ==
    LET rows == {[course1Name |-> CourseName(t[1].course),
                  course2Name |-> CourseName(t[2].course),
                  semester |-> t[1].semester, day |-> t[3],
                  start1 |-> t[1].slot.startTime, end1 |-> t[1].slot.endTime,
                  start2 |-> t[2].slot.startTime, end2 |-> t[2].slot.endTime] :
                    t \in triples}
        list == AnyOrder(rows)
    IN  [outcome |-> "ok", queries |-> <<QTimeConflicts(course_ids, semester)>>,
         conflicts |-> [i \in 1..Len(list) |-> ConflictEntry(list[i])],
         message   |-> list = <<>>]

\* the components of the requested courses, paired with a common weekday
RequestedPairs(course_ids) ==
    {t \in Graph.offerings \X Graph.offerings \X Weekdays :
        /\ IRI(t[1].course) \in ValuesOf_Terms(course_ids)
        /\ IRI(t[2].course) \in ValuesOf_Terms(course_ids)
        /\ t[3] \in t[1].slot.days \cap t[2].slot.days}

\* a detector that takes intervals as closed: start1 <= end2 and start2 <= end1
DetectConflicts_Closed(course_ids, semester) ==
    DetectorReporting(course_ids, semester,
        {t \in RequestedPairs(course_ids) :
            /\ CodeLess(t[1].course, t[2].course)
            /\ t[1].semester = semester /\ t[2].semester = semester
            /\ t[1].slot.startTime <= t[2].slot.endTime
            /\ t[2].slot.startTime <= t[1].slot.endTime})

\* a detector without FILTER(STR(?course1) < STR(?course2))
DetectConflicts_Unordered(course_ids, semester) ==
    DetectorReporting(course_ids, semester,
        {t \in RequestedPairs(course_ids) :
            /\ t[1] # t[2]
            /\ t[1].semester = semester /\ t[2].semester = semester
            /\ Overlap(t[1].slot, t[2].slot)})

\* a detector without FILTER(?semester = ?selectedSemester)
DetectConflicts_AnySemester(course_ids, semester) ==
    DetectorReporting(course_ids, semester,
        {t \in RequestedPairs(course_ids) :
            /\ CodeLess(t[1].course, t[2].course)
            /\ Overlap(t[1].slot, t[2].slot)})

\* a detector that reads the rows with r.get(...), which gives None for every
\* field of an error row in place of an exception
DetectConflicts_DictGet(course_ids, semester) ==
    LET results == query_knowledge_graph(
                       AnyOrder(TimeConflictRows(course_ids, semester)))
        nones   == [course1 |-> "None", course2 |-> "None", semester |-> "None",
                    day |-> "None", course1_start |-> 0, course1_end |-> 0,
                    course2_start |-> 0, course2_end |-> 0]
    IN  [outcome   |-> "ok",
         queries   |-> <<QTimeConflicts(course_ids, semester)>>,
         conflicts |-> IF results.error THEN <<nones>>
                       ELSE [i \in 1..Len(results.rows) |->
                                ConflictEntry(results.rows[i])],
         message   |-> ~Truthy(results)]

\* SchedulerAgent.detect_conflicts(course_ids, semester); message tells
\* whether the result carries "No schedule conflicts detected ..."
DetectConflicts(course_ids, semester) ==
    LET results == query_knowledge_graph(
                       AnyOrder(TimeConflictRows(course_ids, semester)))
        first   == IF results.error THEN [error |-> TRUE] ELSE results.rows[1]
        raises  == Truthy(results) /\ ~HasAttribute(first, "course1Name")
        list    == IF raises THEN <<>> ELSE results.rows
    IN  [outcome   |-> IF raises THEN "AttributeError" ELSE "ok",
         queries   |-> <<QTimeConflicts(course_ids, semester)>>,
         conflicts |-> [i \in 1..Len(list) |-> ConflictEntry(list[i])],
         message   |-> ~raises /\ list = <<>>]

RECURSIVE ExplainIntro(_, _, _)

\* one pass of a loop that notes a course without details and goes on to the
\* next course
ExplainIntroStep_Continue(course_ids, qs, intro, course_details) ==
    IF course_details.error
    THEN [outcome |-> "KeyError", returned |-> TRUE, queries |-> qs, text |-> <<>>]
    ELSE ExplainIntro(Tail(course_ids), qs,
             IF ~Truthy(course_details) THEN <<LNoScheduleInformation>>
             ELSE Append(intro, LCourse(Head(course_ids),
                                        course_details.rows[1].courseName)))

\* one pass of the loop, course_details being what get_course_details returned
ExplainIntroStep(course_ids, qs, intro, course_details) ==
    IF ~Truthy(course_details)
    THEN [outcome |-> "ok", returned |-> TRUE, queries |-> qs,
          text |-> <<LNoScheduleInformation>>]
    ELSE IF course_details.error
    THEN [outcome |-> "KeyError", returned |-> TRUE, queries |-> qs, text |-> <<>>]
    ELSE ExplainIntro(Tail(course_ids), qs,
             Append(intro, LCourse(Head(course_ids),
                                   course_details.rows[1].courseName)))

\* the loop of explain_conflicts over course_ids: get_course_details for
\* each, an early return when one has no row, otherwise a line of the intro
ExplainIntro(course_ids, qs, intro) ==
    IF course_ids = <<>>
    THEN [outcome |-> "ok", returned |-> FALSE, queries |-> qs, text |-> intro]
    ELSE ExplainIntroStep(
             course_ids,
             Append(qs, QDetails(EX(StripSpaces(Head(course_ids))))),
             intro,
             query_knowledge_graph(DetailsRows(EX(StripSpaces(Head(course_ids))))))

\* explain_conflicts after the loop left intro and detect_conflicts gave
\* conflict_result
ExplainResult(intro, conflict_result) ==
    [outcome   |-> conflict_result.outcome,
     queries   |-> intro.queries \o conflict_result.queries,
     conflicts |-> conflict_result.conflicts,
     text      |->
        IF conflict_result.outcome # "ok" THEN <<>>
        ELSE IF conflict_result.conflicts = <<>>
        THEN Append(intro.text, LNoConflicts)
        ELSE Append(intro.text, LFoundConflicts) \o
             [i \in 1..Len(conflict_result.conflicts) |->
                 LConflict(conflict_result.conflicts[i])]]

\* explain_conflicts once the loop over course_ids has ended in intro
ExplainAfterIntro(course_ids, semester, intro) ==
    IF intro.returned
    THEN [outcome |-> intro.outcome, queries |-> intro.queries,
          conflicts |-> <<>>, text |-> intro.text]
    ELSE ExplainResult(intro, DetectConflicts(course_ids, semester))

\* SchedulerAgent.explain_conflicts(course_ids, semester)
ExplainConflicts(course_ids, semester) ==
    ExplainAfterIntro(course_ids, semester,
                      ExplainIntro(course_ids, <<>>, <<LIntro(semester)>>))

----------------------------------------------------------------------------
(* agent_orchestrator.py: the HTTP handler *)

\* OrchestratorAgent.classify_intent(user_query), for a query that is a string
classify_intent(user_query) ==
    IF "prereq" \in user_query.words \/ "chain" \in user_query.words
    THEN "prerequisite_query"
    ELSE IF "schedule" \in user_query.words \/ "conflict" \in user_query.words
    THEN "schedule_building"
    ELSE IF \/ "recommend" \in user_query.words
            \/ "interest" \in user_query.words
            \/ "topic" \in user_query.words
    THEN "course_discovery"
    ELSE IF "eligible" \in user_query.words \/ "can i take" \in user_query.words
    THEN "check_eligibility"
    ELSE IF "requirement" \in user_query.words \/ "major" \in user_query.words
    THEN "program_requirement"
    ELSE "general_query"

\* create_workflow returns a Crew for these intents and None for the others
HasWorkflow(intent) ==
    intent \in {"prerequisite_query", "schedule_building", "course_discovery"}

\* str(e) of the exceptions that reach the handler
NoneHasNoLower == "'NoneType' object has no attribute 'lower'"
KickoffExceptionText == "str(e) of the exception raised inside crew.kickoff()"
ExceptionTexts == {NoneHasNoLower, KickoffExceptionText}

SorryNotUnderstood == "I'm sorry, I didn't understand that request."
KickoffText == "str(result) of crew.kickoff()"

Raises(text) == [raised |-> TRUE, text |-> text]
Returns(text) == [raised |-> FALSE, text |-> text]

\* CourseRecommenderSystem.process_query(user_query, user_context)
process_query(user_query, kickoff) ==
    IF ~user_query.present
    THEN Raises(NoneHasNoLower)
    ELSE IF ~HasWorkflow(classify_intent(user_query))
    THEN Returns(SorryNotUnderstood)
    ELSE IF kickoff = "raises"
    THEN Raises(KickoffExceptionText)
    ELSE Returns(KickoffText)

\* the response of handle_query when process_query ended in r:
\* jsonify({"response": response_text}), or jsonify({"error": str(e)}), 500
Response(r) ==
    IF r.raised
    THEN [status |-> "500", body |-> Line("error", 0, <<>>, r.text, FALSE)]
    ELSE [status |-> "200", body |-> Line("response", 0, <<>>, r.text, FALSE)]

\* handle_query(): POST /api/query
HandleQuery(user_query, kickoff) == Response(process_query(user_query, kickoff))

----------------------------------------------------------------------------
(* Requests and their recorded outcomes *)

\* PrerequisiteAgent.__init__: self.sparql_results = {}
FreshSparqlResults == [has_course_list |-> FALSE, course_list |-> <<>>]

\* the course codes a caller asks about: "I 1", "I1" and "I 2"
RequestCodes == {CourseCode(I1), I1, CourseCode(I2)}

\* request.json without a "query" key: data.get('query') is None
NoQuery == [present |-> FALSE, words |-> {}]

NoInput == [codes |-> <<>>, has_line |-> FALSE, completed |-> {}, semester |-> "",
            query |-> NoQuery, parses |-> TRUE]

\* the user queries posted to /api/query, by the keywords they contain
UserQueries ==
    {NoQuery} \cup
    {[present |-> TRUE, words |-> w] :
        w \in {{}, {"prereq"}, {"conflict"}, {"topic"}, {"eligible"},
               {"prereq", "schedule"}}}

\* how crew.kickoff() of the agent framework ends
Kickoffs == {"returns", "raises"}

\* the course lists handed to the scheduler: none, one course, two courses
\* in either order, and a course without a Course record, last or first
CourseLists == {<<>>, <<I1>>, <<I1, I2>>, <<I2, I1>>, <<I1, I3>>, <<I3, I1>>}

\* the semester strings handed to the scheduler; "Fall 2025" is not of the
\* form "<year> <Semester>"
RequestSemesters == {"2025 Fall", "Fall 2025"}

\* the task outputs handed to the agent: no COURSE_CODES line, one code,
\* or two different codes
TaskOutputs ==
    {NoInput}
    \cup {[NoInput EXCEPT !.has_line = TRUE, !.codes = <<c>>] : c \in RequestCodes}
    \cup {[NoInput EXCEPT !.has_line = TRUE, !.codes = cs] :
              cs \in {<<CourseCode(I1), CourseCode(I2)>>,
                      <<CourseCode(I2), CourseCode(I1)>>}}

\* what a call did: kg is _kg_instance and run the process at the time of the call
Result(op, input, outcome, stage, entries, text, rows) ==
    [op |-> op, input |-> input, outcome |-> outcome, stage |-> stage,
     entries |-> entries, text |-> text, rows |-> rows,
     kg |-> kg_instance, run |-> run]

NoResult == Result("none", NoInput, "ok", "", <<>>, <<>>, Rows(<<>>))

----------------------------------------------------------------------------
(* Initial state: the module has been imported, nothing is initialized *)

Init ==
    /\ ttl \in Graphs
    /\ hashOrder \in Permutations3
    /\ kg_instance = "None"
    /\ sparql_results = FreshSparqlResults
    /\ queries = <<>>
    /\ run = 0
    /\ result = NoResult
    /\ nreq = 0

\* the module has been imported in a process whose Turtle file carries
\* schedule data
InitTimetable ==
    /\ ttl \in TimetableGraphs
    /\ hashOrder = <<I1, I2, I3>>
    /\ kg_instance = "None"
    /\ sparql_results = FreshSparqlResults
    /\ queries = <<>>
    /\ run = 0
    /\ result = NoResult
    /\ nreq = 0

\* Turtle files with prerequisites and schedule data together: one
\* hasPrerequisite triple at most, and one Monday 9-11 component at most
FrameGraphs ==
    {[g EXCEPT !.offerings = o] :
        g \in {x \in Graphs : x.defined = {I1, I2} /\ Cardinality(x.edges) <= 1},
        o \in SubsetsUpTo({k \in Components :
                              k.slot = [days |-> {"Monday"}, startTime |-> 9,
                                        endTime |-> 11]}, 1)}

\* the module has been imported in a process on one of these files
InitFrame ==
    /\ ttl \in FrameGraphs
    /\ hashOrder = <<I1, I2, I3>>
    /\ kg_instance = "None"
    /\ sparql_results = FreshSparqlResults
    /\ queries = <<>>
    /\ run = 0
    /\ result = NoResult
    /\ nreq = 0

----------------------------------------------------------------------------
(* Actions *)

\* initialize_knowledge_graph(ttl_file_path) at the start of the server
initialize_knowledge_graph(parses) ==
    /\ kg_instance' = InitializeKnowledgeGraph(kg_instance, parses).kg_instance
    /\ UNCHANGED <<ttl, hashOrder, sparql_results, queries, result, nreq, run>>

\* initialize_knowledge_graph(ttl_file_path) called by a caller that sees
\* how it ends
initialize_call(parses) ==
    /\ \E r \in {InitializeKnowledgeGraph(kg_instance, parses)} :
           /\ kg_instance' = r.kg_instance
           /\ result' = Result("initialize_knowledge_graph",
                               [NoInput EXCEPT !.parses = parses], r.outcome,
                               "", <<>>, <<>>, Rows(<<>>))
    /\ queries' = <<>>
    /\ UNCHANGED <<ttl, hashOrder, sparql_results, nreq, run>>

\* query_knowledge_graph.run(query) called directly with a query text
query_call(q) ==
    /\ \E r \in {QueryKnowledgeGraph(q.q # "malformed", QueryRows(q))} :
           result' = Result("query_knowledge_graph", NoInput,
                            IF r.raised THEN "Exception" ELSE "ok",
                            "", <<>>, <<>>, r.value)
    /\ queries' = <<q>>
    /\ ttl' = GraphAfter(ttl, <<q>>)
    /\ UNCHANGED <<hashOrder, kg_instance, sparql_results, nreq, run>>

\* sparql_prerequisite_tool(task_output)
sparql_prerequisite_tool(task_output) ==
    /\ \E r \in {ToolRun(task_output)} :
           /\ result' = Result("sparql_prerequisite_tool",
                               [NoInput EXCEPT !.codes = <<task_output>>],
                               r.outcome, "", r.entries, r.text, Rows(<<>>))
           /\ queries' = r.queries
           /\ ttl' = GraphAfter(ttl, r.queries)
    /\ UNCHANGED <<hashOrder, kg_instance, sparql_results, nreq, run>>

\* PrerequisiteAgent.sparql_callback(task_output)
sparql_callback(task_output) ==
    /\ nreq < MaxRequests
    /\ \E r \in {AgentRun(sparql_results, task_output)} :
           /\ result' = Result("sparql_callback", task_output, r.outcome,
                               r.stage, r.entries, r.text, Rows(<<>>))
           /\ queries' = r.queries
           /\ ttl' = GraphAfter(ttl, r.queries)
           /\ sparql_results' = r.sr
    /\ nreq' = nreq + 1
    /\ UNCHANGED <<hashOrder, kg_instance, run>>

\* EligibilityAgent.check_eligibility(completed_courses)
check_eligibility(completed_courses) ==
    /\ result' = Result("check_eligibility",
                        [NoInput EXCEPT !.completed = completed_courses],
                        "ok", "", <<>>, <<>>,
                        query_knowledge_graph(EligibilityRows(completed_courses)))
    /\ queries' = <<QEligibility(completed_courses)>>
    /\ ttl' = GraphAfter(ttl, <<QEligibility(completed_courses)>>)
    /\ UNCHANGED <<hashOrder, kg_instance, sparql_results, nreq, run>>

\* SchedulerAgent.detect_conflicts(course_ids, semester)
detect_conflicts(course_ids, semester) ==
    /\ \E r \in {DetectConflicts(course_ids, semester)} :
           /\ result' = Result("detect_conflicts",
                               [NoInput EXCEPT !.codes = course_ids,
                                               !.semester = semester],
                               r.outcome, "", r.conflicts,
                               IF r.message THEN <<LNoConflictsDetected>> ELSE <<>>,
                               Rows(<<>>))
           /\ queries' = r.queries
           /\ ttl' = GraphAfter(ttl, r.queries)
    /\ UNCHANGED <<hashOrder, kg_instance, sparql_results, nreq, run>>

\* SchedulerAgent.explain_conflicts(course_ids, semester)
explain_conflicts(course_ids, semester) ==
    /\ \E r \in {ExplainConflicts(course_ids, semester)} :
           /\ result' = Result("explain_conflicts",
                               [NoInput EXCEPT !.codes = course_ids,
                                               !.semester = semester],
                               r.outcome, "", r.conflicts, r.text, Rows(<<>>))
           /\ queries' = r.queries
           /\ ttl' = GraphAfter(ttl, r.queries)
    /\ UNCHANGED <<hashOrder, kg_instance, sparql_results, nreq, run>>

\* handle_query() in the server, which __main__ starts after it has built
\* CourseRecommenderSystem and so installed the knowledge graph
handle_query(user_query, kickoff) ==
    /\ kg_instance = "loaded"
    /\ \E r \in {HandleQuery(user_query, kickoff)} :
           result' = Result("handle_query", [NoInput EXCEPT !.query = user_query],
                            r.status, "", <<>>, <<r.body>>, Rows(<<>>))
    /\ queries' = <<>>
    /\ UNCHANGED <<ttl, hashOrder, kg_instance, sparql_results, nreq, run>>

\* the server process ends and a new one starts on the same Turtle file:
\* module state is fresh and hashed containers iterate in a new order
Restart ==
    /\ run < MaxRestarts
    /\ run' = run + 1
    /\ hashOrder' \in Permutations3
    /\ kg_instance' = "None"
    /\ sparql_results' = FreshSparqlResults
    /\ nreq' = 0
    /\ UNCHANGED <<ttl, queries, result>>

Initialize == \E parses \in BOOLEAN : initialize_knowledge_graph(parses)

NextTool ==
    \/ Initialize
    \/ \E code \in RequestCodes : sparql_prerequisite_tool(code)

NextResolver ==
    \/ Initialize
    \/ \E code \in RequestCodes : sparql_prerequisite_tool(code)
    \/ \E task_output \in TaskOutputs : sparql_callback(task_output)

NextEligibility ==
    \/ Initialize
    \/ \E completed_courses \in SUBSET Course : check_eligibility(completed_courses)

NextScheduler ==
    \/ Initialize
    \/ \E course_ids \in CourseLists, semester \in RequestSemesters :
           detect_conflicts(course_ids, semester)
    \/ \E course_ids \in CourseLists, semester \in RequestSemesters :
           explain_conflicts(course_ids, semester)

NextServer ==
    \/ Initialize
    \/ \E user_query \in UserQueries, kickoff \in Kickoffs :
           handle_query(user_query, kickoff)

\* the operations that query the knowledge graph
NextOperations ==
    \/ Initialize
    \/ \E code \in RequestCodes : sparql_prerequisite_tool(code)
    \/ \E task_output \in TaskOutputs : sparql_callback(task_output)
    \/ \E completed_courses \in SUBSET Course : check_eligibility(completed_courses)
    \/ \E course_ids \in CourseLists, semester \in RequestSemesters :
           detect_conflicts(course_ids, semester)
    \/ \E course_ids \in CourseLists, semester \in RequestSemesters :
           explain_conflicts(course_ids, semester)

Next ==
    \/ Initialize
    \/ \E code \in RequestCodes : sparql_prerequisite_tool(code)
    \/ \E task_output \in TaskOutputs : sparql_callback(task_output)
    \/ \E completed_courses \in SUBSET Course : check_eligibility(completed_courses)
    \/ \E course_ids \in CourseLists, semester \in RequestSemesters :
           detect_conflicts(course_ids, semester)
    \/ \E course_ids \in CourseLists, semester \in RequestSemesters :
           explain_conflicts(course_ids, semester)
    \/ \E user_query \in UserQueries, kickoff \in Kickoffs :
           handle_query(user_query, kickoff)
    \/ Restart

NextAccessor ==
    \/ \E parses \in BOOLEAN : initialize_call(parses)
    \/ \E q \in DirectQueries : query_call(q)

\* the prerequisite tool alone
SpecTool == Init /\ [][NextTool]_vars

\* the prerequisite tool over several runs of the server
SpecRuns == Init /\ [][NextTool \/ Restart]_vars

\* both prerequisite resolvers
SpecResolver == Init /\ [][NextResolver]_vars

\* the eligibility check alone
SpecEligibility == Init /\ [][NextEligibility]_vars

\* the schedule conflict detector on Turtle files with schedule data
SpecScheduler == InitTimetable /\ [][NextScheduler]_vars

\* the HTTP handler
SpecServer == Init /\ [][NextServer]_vars

\* every operation that queries the graph, on Turtle files with
\* prerequisites and schedule data
SpecFrame == InitFrame /\ [][NextOperations]_vars

\* the graph accessor called directly
SpecAccessor == Init /\ [][NextAccessor]_vars

\* every operation
Spec == Init /\ [][Next]_vars

----------------------------------------------------------------------------
(* What the properties below observe *)

ResolverOps == {"sparql_prerequisite_tool", "sparql_callback"}

\* the last call was a resolver call on a loaded graph
ResolverCall == result.op \in ResolverOps /\ result.kg = "loaded"

\* ... and resolution itself returned: the tool returned, or the agent's
\* sparql_query_callback did
Resolved ==
    /\ ResolverCall
    /\ result.outcome = "ok" \/ result.stage = "sparql_callback"
    /\ result.entries # <<>>

\* the course entry the call produced, its target and its chain
Entry        == result.entries[Len(result.entries)]
Target       == EX(StripSpaces(Entry.course_code))
Chain        == Entry.prerequisite_list.list
ChainCourses == [i \in 1..Len(Chain) |->
                    EX(StripSpaces(Chain[i].prerequisite_course_code))]
Occurrences(c) == {i \in 1..Len(Chain) : ChainCourses[i] = c}
Position(c)    == CHOOSE i \in Occurrences(c) : TRUE

\* the course the request names
RequestedTarget == EX(StripSpaces(result.input.codes[1]))

\* a hasPrerequisite b, and b reachable from a in one or more hops
Requires(a, b) == <<a, b>> \in ttl.edges
HasPath(a, b) ==
    \E n \in 1..Cardinality(Course) : \E p \in [0..n -> Course] :
        /\ p[0] = a
        /\ p[n] = b
        /\ \A i \in 1..n : Requires(p[i - 1], p[i])
Acyclic == \A c \in Course : ~HasPath(c, c)

----------------------------------------------------------------------------
(* Properties *)

\* C1: on an acyclic graph, for a target with a Course record, the chain of
\* sparql_prerequisite_tool holds every course reachable from the target by
\* one or more hasPrerequisite hops exactly once, and nothing else (so never
\* the target).
C1_ChainIsTransitiveClosure ==
    (/\ result.op = "sparql_prerequisite_tool"
     /\ result.kg = "loaded"
     /\ Acyclic
     /\ RequestedTarget \in ttl.defined)
    => /\ result.outcome = "ok"
       /\ \A c \in Course :
             Cardinality(Occurrences(c)) =
                 IF HasPath(RequestedTarget, c) THEN 1 ELSE 0
       /\ Range(ChainCourses) \subseteq Course
       /\ RequestedTarget \notin Range(ChainCourses)

\* C1 witness: a chain of two courses was returned for a defined target
C1_Witness ==
    /\ result.op = "sparql_prerequisite_tool"
    /\ result.kg = "loaded"
    /\ result.outcome = "ok"
    /\ Acyclic
    /\ RequestedTarget \in ttl.defined
    /\ Len(Chain) = 2
\* C2 as stated: when A hasPrerequisite B and B hasPrerequisite C, the chain
\* of resolve(A) holds B at an earlier position than C.
C2_DependentBeforePrerequisite ==
    (Resolved /\ Target \in ttl.defined)
    => \A b, c \in Course :
          (Requires(Target, b) /\ Requires(b, c))
          => /\ Occurrences(b) # {}
             /\ Occurrences(c) # {}
             /\ Position(b) < Position(c)

\* C2 amended: when A hasPrerequisite B and B hasPrerequisite C and resolve(A)
\* returns a chain for a target A with a Course record, the chain holds both,
\* C at an earlier position than B: a course comes after its prerequisites.
C2_PrerequisiteBeforeDependent ==
    (Resolved /\ Target \in ttl.defined)
    => \A b, c \in Course :
          (Requires(Target, b) /\ Requires(b, c))
          => /\ Occurrences(b) # {}
             /\ Occurrences(c) # {}
             /\ Position(c) < Position(b)

\* C2 witness: a two-hop chain was resolved, by the tool and by the agent
C2_WitnessOp(op) ==
    /\ Resolved
    /\ result.op = op
    /\ Target \in ttl.defined
    /\ \E b, c \in Course : Requires(Target, b) /\ Requires(b, c)

C2_Witness == C2_WitnessOp("sparql_callback")

C2_WitnessTool == C2_WitnessOp("sparql_prerequisite_tool")
\* C3 as stated: resolving a course that has a Course record and no
\* hasPrerequisite edge completes without error and yields a chain that is a
\* list with zero entries, through the tool and through the agent's
\* sparql_query_callback.
C3_NoPrerequisitesEmptyList ==
    (/\ ResolverCall
     /\ result.input.codes # <<>>
     /\ RequestedTarget \in ttl.defined
     /\ ~ \E c \in Course : Requires(RequestedTarget, c))
    => /\ Resolved
       /\ Entry.prerequisite_list = ListValue(<<>>)
\* C4 as stated: when a course reachable from the target has no Course
\* record, resolving completes without raising, the chain entry of every such
\* course carries the name "Unknown Course: No data available", and every
\* other reachable course is in the chain under its real name.
C4_UnknownPrerequisiteSentinel ==
    (/\ ResolverCall
     /\ result.input.codes # <<>>
     /\ RequestedTarget \in ttl.defined
     /\ Acyclic
     /\ \E x \in Course \ ttl.defined : HasPath(RequestedTarget, x))
    => /\ Resolved
       /\ \A c \in Course :
             HasPath(RequestedTarget, c)
             => /\ Occurrences(c) # {}
                /\ Chain[Position(c)].prerequisite_course_name =
                      IF c \in ttl.defined THEN CourseName(c) ELSE UnknownCourse
\* a cycle of hasPrerequisite can be reached from the requested course
CycleReachable ==
    \E c \in Course :
        /\ c = RequestedTarget \/ HasPath(RequestedTarget, c)
        /\ HasPath(c, c)

\* C5 as stated: when the prerequisite relation reachable from the target
\* holds a cycle, resolving ends in the distinct DataIntegrityError outcome.
C5_CycleIsDataIntegrityError ==
    (/\ ResolverCall
     /\ result.input.codes # <<>>
     /\ RequestedTarget \in ttl.defined
     /\ CycleReachable)
    => result.outcome = "DataIntegrityError"
\* C6 as stated: when the target course has no Course record (its details
\* lookup returned no rows), the transitive prerequisite query is never sent,
\* by the tool and by the agent.
C6_NoTraversalForUnknownTarget ==
    (/\ ResolverCall
     /\ result.input.codes # <<>>
     /\ RequestedTarget \notin ttl.defined)
    => /\ queries # <<>>
       /\ queries[1] = QDetails(RequestedTarget)
       /\ \A i \in 1..Len(queries) : queries[i].q # "prerequisites"
\* the same call as the last one, made as the first request of the process
AsFirstRequest ==
    IF result.op = "sparql_callback"
    THEN AgentRun(FreshSparqlResults, result.input)
    ELSE ToolRun(result.input.codes[1])

\* C7 as stated: what a resolver call returns depends only on the course
\* code and the graph, not on the requests made before it: a request that is
\* answered when it is the first one gets the same chain and the same text
\* whatever was asked before, so asking twice gives the same answer twice.
C7_IndependentOfEarlierRequests ==
    (ResolverCall /\ kg_instance = "loaded" /\ AsFirstRequest.outcome = "ok")
    => /\ result.outcome = "ok"
       /\ result.entries = AsFirstRequest.entries
       /\ result.text = AsFirstRequest.text
\* the last two calls were the same request to the tool, both answered
SameToolRequestAgain ==
    /\ result.op = "sparql_prerequisite_tool"
    /\ result'.op = "sparql_prerequisite_tool"
    /\ result'.input = result.input
    /\ result.kg = "loaded" /\ result'.kg = "loaded"
    /\ result.outcome = "ok" /\ result'.outcome = "ok"

\* C8 as stated: the chain is a function of the graph's contents alone: the
\* same request on the same graph gets the same chain in every run of the
\* server, in whatever order that run's store and sets yield the rows.
C8_SameChainInEveryRun ==
    [][SameToolRequestAgain => result'.entries = result.entries]_vars
\* the last call was the eligibility check on a loaded graph
EligibilityCall == result.op = "check_eligibility" /\ result.kg = "loaded"

\* the courses the eligibility check returned
Returned == {result.rows.rows[i].course : i \in 1..Len(result.rows.rows)}

\* the direct hasPrerequisite targets of a course
PrerequisitesOf(c) == {p \in Course : Requires(c, p)}

C10_UndefinedPrerequisiteBlocks ==
    EligibilityCall
    => \A c \in Returned :
          ~ \E x \in Course \ ttl.defined : Requires(c, x)

----------------------------------------------------------------------------
(* What the schedule properties observe *)

\* the last call was detect_conflicts or explain_conflicts on a loaded graph
ConflictOps == {"detect_conflicts", "explain_conflicts"}
ConflictCall == result.op \in ConflictOps /\ result.kg = "loaded"

\* the courses and the semester of the request
RequestedCourses == {StripSpaces(c) : c \in Range(result.input.codes)}
RequestedSemester == result.input.semester

\* the conflict entries of the result
Conflicts == Range(result.entries)

\* the components a requested course has in the requested semester
ComponentsOf(c) ==
    {k \in ttl.offerings : k.course = c /\ k.semester = RequestedSemester}

\* the entry e reports components k1 and k2 on day d, in either role
Reports(e, k1, k2, d) ==
    /\ e.day = d
    /\ \/ /\ e.course1 = CourseName(k1.course) /\ e.course2 = CourseName(k2.course)
          /\ e.course1_start = k1.slot.startTime /\ e.course1_end = k1.slot.endTime
          /\ e.course2_start = k2.slot.startTime /\ e.course2_end = k2.slot.endTime
       \/ /\ e.course1 = CourseName(k2.course) /\ e.course2 = CourseName(k1.course)
          /\ e.course1_start = k2.slot.startTime /\ e.course1_end = k2.slot.endTime
          /\ e.course2_start = k1.slot.startTime /\ e.course2_end = k1.slot.endTime

\* two requested, different courses have components k1 and k2 in the
\* requested semester that overlap on day d
OverlapOn(k1, k2, d) ==
    /\ k1.course \in RequestedCourses /\ k2.course \in RequestedCourses
    /\ k1.course # k2.course
    /\ k1 \in ComponentsOf(k1.course) /\ k2 \in ComponentsOf(k2.course)
    /\ d \in k1.slot.days \cap k2.slot.days
    /\ Overlap(k1.slot, k2.slot)

\* C11 as stated: when two different requested courses have components in
\* the requested semester on the same weekday with overlapping half-open
\* intervals, the call ends normally with an entry that names both courses,
\* that weekday and those four start and end values.
C11_OverlapIsReported ==
    ConflictCall =>
        \A k1, k2 \in ttl.offerings : \A d \in Weekdays :
            OverlapOn(k1, k2, d) =>
                /\ result.outcome = "ok"
                /\ \E e \in Conflicts : Reports(e, k1, k2, d)

\* the course whose schema:name is n
CourseNamed(n) == CHOOSE c \in Course : CourseName(c) = n

\* the entry e is of components k1 (as course1) and k2 (as course2)
EntryOf(e, k1, k2) ==
    /\ e.course1 = CourseName(k1.course) /\ e.course2 = CourseName(k2.course)
    /\ e.semester = k1.semester /\ e.semester = k2.semester
    /\ e.course1_start = k1.slot.startTime /\ e.course1_end = k1.slot.endTime
    /\ e.course2_start = k2.slot.startTime /\ e.course2_end = k2.slot.endTime

OverlappingPairs(c1, c2) ==
    {p \in ComponentsOf(c1) \X ComponentsOf(c2) :
        \E d \in p[1].slot.days \cap p[2].slot.days : Overlap(p[1].slot, p[2].slot)}

\* the positions of the entries for course1 c1 and course2 c2
EntriesFor(c1, c2) ==
    {i \in 1..Len(result.entries) :
        /\ result.entries[i].course1 = CourseName(c1)
        /\ result.entries[i].course2 = CourseName(c2)}

\* C14 as stated: the call ends normally and, for each two requested courses
\* c1 < c2, the number of conflict entries equals the number of overlapping
\* pairs of components, one from each, whatever the number of weekdays the
\* two components share.
C14_OneEntryPerOverlappingPair ==
    ConflictCall =>
        \A c1, c2 \in RequestedCourses :
            (CodeLess(c1, c2) /\ OverlappingPairs(c1, c2) # {}) =>
                /\ result.outcome = "ok"
                /\ Cardinality(EntriesFor(c1, c2))
                       = Cardinality(OverlappingPairs(c1, c2))

ReportsMissingData ==
    \E i \in 1..Len(result.text) : result.text[i] = LNoScheduleInformation

\* C16 as stated: for a list [A, B] of courses with a Course record where B
\* has no offering in the requested semester, the call ends without error,
\* reports missing schedule data for B, and reports for A the conflicts that
\* a request for A alone gives.
C16_MissingOfferingReported ==
    (/\ ConflictCall
     /\ Len(result.input.codes) = 2
     /\ RequestedCourses \subseteq ttl.defined
     /\ ComponentsOf(StripSpaces(result.input.codes[2])) = {})
    => /\ result.outcome = "ok"
       /\ ReportsMissingData
       /\ result.entries
              = DetectConflicts(<<result.input.codes[1]>>, RequestedSemester).conflicts

\* a semester string of the form "<year> <Semester>"
WellFormedSemester(s) == s \in Semesters

\* the last call was handed an empty course list or a malformed semester
InvalidConflictInput ==
    /\ result.op \in ConflictOps
    /\ \/ result.input.codes = <<>>
       \/ ~WellFormedSemester(result.input.semester)

\* C17 as stated: a call on invalid input sends no query to the graph
\* accessor.
C17_InvalidInputIssuesNoQuery ==
    InvalidConflictInput => queries = <<>>

\* the last call asked the graph accessor while no knowledge graph was
\* installed
AccessorFailed == result.op # "none" /\ result.kg = "None" /\ queries # <<>>

\* C18 as stated: a call during which the graph accessor failed does not end
\* as an ordinary return.
C18_AccessorFailureIsAnError ==
    AccessorFailed => result.outcome # "ok"

----------------------------------------------------------------------------
(* What the error-handling properties observe *)

\* the last call was handle_query and processing ended in an exception
FatalError == result.op = "handle_query" /\ result.outcome = "500"

\* C19 as stated: when processing a user query ends in a fatal error, the
\* text returned to the user does not carry the text of the exception.
C19_NoRawErrorText ==
    FatalError =>
        \A i \in 1..Len(result.text) : result.text[i].name \notin ExceptionTexts

\* C20: no operation changes the knowledge graph: the triples are the same
\* after every step as before it.
C20_GraphIsReadOnly == [][ttl' = ttl]_vars

\* C20 witness: on an installed graph with a prerequisite and a schedule
\* component, the PrerequisiteAgent has served a request and the last call,
\* a conflict check, sent queries to the graph
C20_Witness ==
    /\ ConflictCall /\ queries # <<>>
    /\ sparql_results.course_list # <<>>
    /\ ttl.edges # {} /\ ttl.offerings # {}

----------------------------------------------------------------------------
(* What the explanation properties observe *)

\* the courses the request names
RequestedTargets == {EX(StripSpaces(c)) : c \in Range(result.input.codes)}

\* the pieces of the returned explanation text, and the numbered lines
TextKinds == {result.text[i].t : i \in 1..Len(result.text)}
NumberedLines == SelectSeq(result.text, LAMBDA l : l.t = "numbered")

\* the last call was a resolver call on a loaded graph that names a course
ResolverRequest == ResolverCall /\ result.input.codes # <<>>

\* C21 as stated: for a target without a Course record, the call returns a
\* text that holds the "is not available in our database" message and neither
\* the "To take the course" header, nor a numbered line, nor "There is no
\* prerequisite for this course.", in the tool and in the agent.
C21_UnknownTargetNotAvailableOnly ==
    (ResolverRequest /\ RequestedTargets \cap ttl.defined = {})
    => /\ result.outcome = "ok"
       /\ "is not available in our database" \in TextKinds
       /\ TextKinds \cap {"To take the course:", "numbered",
                          "There is no prerequisite for this course."} = {}

\* the call is the first one its resolver serves: the tool keeps nothing
\* between calls, the agent keeps course_list
FirstRequest == result.op = "sparql_callback" => nreq = 1

\* every requested course has a Course record and no hasPrerequisite triple
NoPrerequisiteTargets ==
    /\ RequestedTargets \subseteq ttl.defined
    /\ \A a \in RequestedTargets : ~ \E b \in Course : Requires(a, b)

\* C22 as stated: for a target with a Course record and an empty chain, the
\* call returns without error a text that holds "There is no prerequisite for
\* this course." and no numbered line, in the tool and in the agent.
C22_EmptyChainNoPrerequisiteSentence ==
    (ResolverRequest /\ FirstRequest /\ NoPrerequisiteTargets)
    => /\ result.outcome = "ok"
       /\ "There is no prerequisite for this course." \in TextKinds
       /\ "numbered" \notin TextKinds

\* the course a numbered line is about
LineCourse(l) == EX(StripSpaces(l.code))

\* C23 as stated: in the explanation returned for targets with a Course
\* record, a numbered line carries the "please contact your department
\* administrator" suffix exactly when its course has no Course record.
C23_SuffixIffNoCourseRecord ==
    (ResolverRequest /\ result.outcome = "ok"
       /\ RequestedTargets \subseteq ttl.defined)
    => \A i \in 1..Len(NumberedLines) :
          NumberedLines[i].suffix <=> LineCourse(NumberedLines[i]) \notin ttl.defined

\* the course entries the returned text was built from: the tool's own
\* course_list, the agent's self.sparql_results["course_list"]
Formatted ==
    IF result.op = "sparql_callback" THEN sparql_results.course_list
    ELSE result.entries

\* their chains, one after the other
FormattedChain ==
    Flatten([i \in 1..Len(Formatted) |-> Formatted[i].prerequisite_list.list])

\* C24: in every course entry the tool returns, the order indices of the
\* chain are 1, 2, ..., n by position, and the text holds one numbered line
\* per chain entry, in chain order, with that entry's index and code.
C24_IndicesAndLinesFollowChain ==
    (ResolverCall /\ result.op = "sparql_prerequisite_tool"
       /\ result.outcome = "ok")
    => /\ \A k \in 1..Len(Formatted) :
             \A i \in 1..Len(Formatted[k].prerequisite_list.list) :
                 Formatted[k].prerequisite_list.list[i].prerequisite_order = i
       /\ Len(NumberedLines) = Len(FormattedChain)
       /\ \A i \in 1..Len(NumberedLines) :
             /\ NumberedLines[i].order = FormattedChain[i].prerequisite_order
             /\ NumberedLines[i].code = FormattedChain[i].prerequisite_course_code
             /\ NumberedLines[i].name = FormattedChain[i].prerequisite_course_name

\* C24 witness: the tool returned a chain of two entries and its text
C24_Witness ==
    /\ ResolverCall /\ result.op = "sparql_prerequisite_tool"
    /\ result.outcome = "ok"
    /\ Len(FormattedChain) = 2
    /\ Len(NumberedLines) = 2

\* ways of writing the codes of I1 and I2 with spaces
SpacedCodes ==
    {<<"I", "1">>, <<"I", " ", "1">>, <<" ", "I", "1">>, <<"I", "1", " ">>,
     <<"I", " ", " ", "1">>, <<"I", "2">>, <<"I", " ", "2">>}

\* two codes that differ in space characters only
NonSpaces(code) == SelectSeq(code, LAMBDA ch : ch \in {"I", "1", "2", "3"})
DifferInSpacesOnly(a, b) == NonSpaces(a) = NonSpaces(b)

\* the tool's call r sent the queries of the last call and ended as it did,
\* with the same name for the target and the same chain
SameLookup(r) ==
    /\ r.queries = queries
    /\ r.outcome = result.outcome
    /\ Len(r.entries) = Len(result.entries)
    /\ \A i \in 1..Len(r.entries) :
          /\ r.entries[i].course_name = result.entries[i].course_name
          /\ r.entries[i].prerequisite_list = result.entries[i].prerequisite_list

\* C25: the tool called with a code that differs from the last call's code
\* in space characters only, on the same state of the graph accessor, sends
\* the same queries to the graph and returns the same found/unknown status
\* and the same chain.
C25_WhitespaceInsensitiveLookup ==
    (result.op = "sparql_prerequisite_tool" /\ result.kg = kg_instance)
    => \A code \in SpacedCodes :
          DifferInSpacesOnly(code, result.input.codes[1]) => SameLookup(ToolRun(code))

\* C25 witness: the tool resolved "I 1", written with a space, to a known
\* course with a chain
C25_Witness ==
    /\ ResolverCall /\ result.op = "sparql_prerequisite_tool"
    /\ result.outcome = "ok"
    /\ result.input.codes[1] = <<"I", " ", "1">>
    /\ I1 \in ttl.defined
    /\ Chain # <<>>

\* the operations that build an explanation text
ExplainingOps == {"sparql_prerequisite_tool", "sparql_callback", "explain_conflicts"}

MissingPositions ==
    {i \in 1..Len(result.input.codes) :
        EX(StripSpaces(result.input.codes[i])) \notin ttl.defined}

\* the details lookups of the first n requested courses, in request order
LookupsUpTo(n) ==
    [i \in 1..n |-> QDetails(EX(StripSpaces(result.input.codes[i])))]

\* C27: explain_conflicts on a loaded graph looks the requested courses up
\* in request order.  When one has no Course record, the lookups stop at the
\* first such course, no conflict query is sent and the text is the missing
\* schedule information message alone.  Otherwise the lookups of all courses
\* are followed by exactly one conflict query.
C27_LookupsThenOneConflictQuery ==
    (result.op = "explain_conflicts" /\ result.kg = "loaded")
    => IF MissingPositions # {}
       THEN /\ result.outcome = "ok"
            /\ result.text = <<LNoScheduleInformation>>
            /\ result.entries = <<>>
            /\ queries = LookupsUpTo(CHOOSE m \in MissingPositions :
                                         \A k \in MissingPositions : m <= k)
       ELSE queries = LookupsUpTo(Len(result.input.codes))
                        \o <<QTimeConflicts(result.input.codes, RequestedSemester)>>

\* C27 witness: explain_conflicts returned for a list whose first course has
\* no Course record and whose second course has one
C27_Witness ==
    /\ result.op = "explain_conflicts" /\ result.kg = "loaded"
    /\ result.input.codes = <<I3, I1>>
    /\ Len(queries) = 1
    /\ result.text = <<LNoScheduleInformation>>

\* the call sent the prerequisite query for its target and returned a chain
ChainResolved ==
    /\ Resolved
    /\ Entry.prerequisite_list.type = "list"
    /\ QPrerequisites(Target) \in Range(queries)

\* the rows of that query with a bound directParent
BoundRows == {r \in Range(PrerequisiteRows(Target)) : r.directParent # None}

\* C28: in a chain returned by the tool or by the agent, for every row of the
\* prerequisite query with a bound directParent, both courses of the row are
\* in the chain and every occurrence of directParent is at an earlier
\* position than every occurrence of prereq.
C28_DirectParentBeforePrereq ==
    ChainResolved
    => \A r \in BoundRows :
          /\ Occurrences(r.directParent) # {}
          /\ Occurrences(r.prereq) # {}
          /\ \A i \in Occurrences(r.directParent), j \in Occurrences(r.prereq) : i < j

\* C28 witness: the agent returned a chain of two courses, one of them the
\* directParent of the other
C28_Witness ==
    /\ ChainResolved
    /\ result.op = "sparql_callback" /\ result.outcome = "ok"
    /\ BoundRows # {}
    /\ Len(Chain) = 2

----------------------------------------------------------------------------
(* What the lifecycle property observes *)

\* the last call was a direct query, or an initialization
QueryCall == result.op = "query_knowledge_graph"
InitializeCall == result.op = "initialize_knowledge_graph"

\* C29: a query made while no knowledge graph is installed returns the row
\* {"error": "Knowledge graph not initialized"} and does not raise; a query on
\* an installed graph does not raise either and returns a single error row
\* when the query fails, the rows otherwise; an initialization that fails to
\* load its file raises RuntimeError and leaves the handle as it was, and one
\* that loads it installs the graph.
C29_AccessorLifecycle ==
    /\ QueryCall =>
          /\ result.outcome = "ok"
          /\ result.kg = "None" => result.rows = ErrorRows
          /\ result.kg = "loaded" =>
                result.rows = IF queries[1] = QMalformed THEN ExceptionRows
                              ELSE Rows(QueryRows(queries[1]))
    /\ InitializeCall =>
          /\ result.outcome = IF result.input.parses THEN "ok" ELSE "RuntimeError"
          /\ kg_instance = IF result.input.parses THEN "loaded" ELSE result.kg

\* C29 witness: an initialization failed while a knowledge graph was
\* installed
C29_Witness ==
    /\ InitializeCall
    /\ result.outcome = "RuntimeError"
    /\ result.kg = "loaded"

----------------------------------------------------------------------------
(* What the callback property observes *)

\* the codes the task output lists
RequestedCodes == ParseCourseCodes(result.input)

\* the courses of the chain of the i-th entry the call appended
EntryChainCourses(i) ==
    {EX(StripSpaces(result.entries[i].prerequisite_list.list[j].prerequisite_course_code)) :
        j \in 1..Len(result.entries[i].prerequisite_list.list)}

\* C30 as stated: sparql_callback on a fresh agent and a loaded graph ends
\* without error, whatever the number k >= 0 of codes the task output lists;
\* it has appended exactly k entries, the i-th with the i-th requested code
\* and with the chain of that course, and the text has one section per entry.
C30_OneEntryPerRequestedCode ==
    (result.op = "sparql_callback" /\ result.kg = "loaded" /\ nreq = 1)
    => /\ result.outcome = "ok"
       /\ Len(result.entries) = Len(RequestedCodes)
       /\ \A i \in 1..Len(result.entries) :
             /\ result.entries[i].course_code = RequestedCodes[i]
             /\ result.entries[i].prerequisite_list.type = "list"
             /\ EntryChainCourses(i) = Reachable(EX(StripSpaces(RequestedCodes[i])))
       /\ Cardinality({j \in 1..Len(result.text) :
                          result.text[j].t \in {"To take the course:",
                                                "is not available in our database"}})
             = Len(RequestedCodes)

====
